---------------------------- MODULE Spec2Model ----------------------------
(***************************************************************************)
(* A model of the numerical core of the (Mg,Fe)O volume/composition        *)
(* utilities: estimate_fe, check_data_validity, vegards_volume,            *)
(* calculate_deviation_vegard, plot_deviation_vegard and the fitting       *)
(* routines of linear_lsf, linear_lsf_confidence, lsf_vegard, comparison   *)
(* and vegards_law.                                                        *)
(*                                                                         *)
(* Every function is stateless.  The model is a caller that, from "idle",  *)
(* calls one function on inputs drawn from bounded sets; the call's        *)
(* outcome (return value, raised exception, lines printed to stdout, data  *)
(* handed to the plotting library, fits asked of the fitting libraries) is *)
(* recorded and pc becomes "done".                                         *)
(* NextCall takes the caller back to "idle".                               *)
(*                                                                         *)
(* Numbers.  A Python/numpy float is modelled as an exact rational         *)
(* [n |-> numerator, d |-> denominator] in lowest terms with d > 0, or as  *)
(* one of the three non-finite values with d = 0: NaN (n = 0), +inf        *)
(* (n = 1), -inf (n = -1).  Arithmetic follows IEEE-754 for the non-finite *)
(* values and is exact on the finite ones (no rounding error).             *)
(***************************************************************************)
EXTENDS Integers, Sequences, FiniteSets, TLC

VARIABLES pc, call, ret, err, out, plot, fits

vars == <<pc, call, ret, err, out, plot, fits>>

-----------------------------------------------------------------------------
(* Bounds *)

\* Longest input array the caller passes.
MaxLen == 3

-----------------------------------------------------------------------------
(* Floats *)

Abs(i) == IF i < 0 THEN -i ELSE i

RECURSIVE GCD(_, _)
GCD(a, b) == IF b = 0 THEN a ELSE GCD(b, a % b)

\* The finite float n/d (d # 0), in lowest terms with a positive denominator.
Q(n, d) ==
    LET g == GCD(Abs(n), Abs(d))
        s == IF d < 0 THEN -1 ELSE 1
    IN  [n |-> s * (n \div g), d |-> s * (d \div g)]

I(n) == [n |-> n, d |-> 1]

NaN  == [n |-> 0, d |-> 0]
PInf == [n |-> 1, d |-> 0]
NInf == [n |-> -1, d |-> 0]

Zero    == I(0)
One     == I(1)
Hundred == I(100)

isnan(v)    == v.d = 0 /\ v.n = 0
isinf(v)    == v.d = 0 /\ v.n # 0
isfinite(v) == v.d # 0

Sign(i) == IF i < 0 THEN -1 ELSE IF i > 0 THEN 1 ELSE 0

\* a < b; every comparison with NaN is false.
FLt(a, b) ==
    IF isnan(a) \/ isnan(b) THEN FALSE
    ELSE IF isfinite(a) /\ isfinite(b) THEN a.n * b.d < b.n * a.d
    ELSE IF isfinite(a) THEN b = PInf
    ELSE IF isfinite(b) THEN a = NInf
    ELSE a = NInf /\ b = PInf

FEq(a, b) == ~isnan(a) /\ ~isnan(b) /\ a = b
FLe(a, b) == FLt(a, b) \/ FEq(a, b)

FNeg(a) == [n |-> -a.n, d |-> a.d]
FAbs(a) == [n |-> Abs(a.n), d |-> a.d]

FAdd(a, b) ==
    IF isnan(a) \/ isnan(b) THEN NaN
    ELSE IF isfinite(a) /\ isfinite(b) THEN Q(a.n * b.d + b.n * a.d, a.d * b.d)
    ELSE IF isfinite(a) THEN b
    ELSE IF isfinite(b) THEN a
    ELSE IF a = b THEN a ELSE NaN

FSub(a, b) == FAdd(a, FNeg(b))

FMul(a, b) ==
    IF isnan(a) \/ isnan(b) THEN NaN
    ELSE IF isfinite(a) /\ isfinite(b) THEN Q(a.n * b.n, a.d * b.d)
    ELSE IF Sign(a.n) * Sign(b.n) = 0 THEN NaN
    ELSE [n |-> Sign(a.n) * Sign(b.n), d |-> 0]

\* numpy's true division: x/0 is +-inf, 0/0 is nan, no exception.
FDiv(a, b) ==
    IF isnan(a) \/ isnan(b) THEN NaN
    ELSE IF isfinite(a) /\ isfinite(b) THEN
         IF b.n # 0 THEN Q(a.n * b.d, a.d * b.n)
         ELSE IF a.n = 0 THEN NaN
         ELSE [n |-> Sign(a.n), d |-> 0]
    ELSE IF isfinite(a) THEN Zero
    ELSE IF isfinite(b) THEN [n |-> a.n * (IF b.n < 0 THEN -1 ELSE 1), d |-> 0]
    ELSE NaN

RECURSIVE Pow10(_)
Pow10(k) == IF k = 0 THEN 1 ELSE 10 * Pow10(k - 1)

\* format(v, ".<digits>f"): for a finite v the number of 10^-digits units
\* printed, rounded half to even on the magnitude; a non-finite v prints as
\* itself ("nan", "inf", "-inf").
Fmt(v, digits) ==
    IF ~isfinite(v) THEN v
    ELSE LET t  == Abs(v.n) * Pow10(digits)
             qd == t \div v.d
             r  == t % v.d
             m  == IF 2 * r > v.d \/ (2 * r = v.d /\ qd % 2 = 1) THEN qd + 1 ELSE qd
         IN  Sign(v.n) * m

-----------------------------------------------------------------------------
(* Outcomes of a call *)

None    == <<>>
Some(v) == <<v>>

NoError == [type |-> "none", msg |-> ""]

Msg(text, vals) == [text |-> text, vals |-> vals]

\* A normal return of value r after printing lines o.
Return(r, o) == [ret |-> r, err |-> NoError, out |-> o, plot |-> None, fits |-> <<>>]
\* An exception e raised after printing lines o.
Raise(e, o)  == [ret |-> None, err |-> e, out |-> o, plot |-> None, fits |-> <<>>]

-----------------------------------------------------------------------------
(* fe_calculation.py *)

NonPositiveVolume ==
    [type |-> "ValueError", msg |-> "Volume must be greater than zero."]
ZeroSlope ==
    [type |-> "ValueError", msg |-> "Slope 'a' cannot be zero (division by zero)."]
MissingArguments ==
    [type |-> "TypeError", msg |-> "estimate_fe() missing 2 required positional arguments: 'a' and 'b'"]

UnusuallyLargeVolume == "Warning: Volume is unusually large. Please verify the input."
OutOfPhysicalRange   == "Warning: The calculated Fe fraction is out of bounds."
FeReport             == "the estimated Fe concentration is"

\* The sanity bound on the volume, in cubic angstroms.
LargeVolume == I(81)

\* Mutant: zero is let through (volume < 0).
volume_is_nonphysical_strict(volume) == FLt(volume, Zero)

\* if volume <= 0
volume_is_nonphysical(volume) == FLe(volume, Zero)

\* Mutant: the bound itself already warns (volume >= 81).
volume_is_large_inclusive(volume) == FLe(LargeVolume, volume)

\* if volume > 81
volume_is_large(volume) == FLt(LargeVolume, volume)

\* Mutant: the zero-slope guard is missing.
slope_is_zero_unguarded(a) == FALSE

\* if a == 0
slope_is_zero(a) == FEq(a, Zero)

\* x = (volume - b) / a
fe_fraction(volume, a, b) == FDiv(FSub(volume, b), a)

\* Mutant: only the lower end of the range is checked.
out_of_bounds_lower_only(x) == FLt(x, Zero)

\* if x < 0 or x > 1
out_of_bounds(x) == FLt(x, Zero) \/ FLt(One, x)

estimate_fe(volume, a, b) ==
    IF volume_is_nonphysical(volume) THEN Raise(NonPositiveVolume, <<>>)
    ELSE
      LET out1 == IF volume_is_large(volume)
                  THEN <<Msg(UnusuallyLargeVolume, <<>>)>>
                  ELSE <<>>
      IN
      IF slope_is_zero(a) THEN Raise(ZeroSlope, out1)
      ELSE
        LET x       == fe_fraction(volume, a, b)
            out2    == IF out_of_bounds(x)
                       THEN Append(out1, Msg(OutOfPhysicalRange, <<Fmt(x, 4)>>))
                       ELSE out1
            percent == FMul(x, Hundred)
        IN  Return(Some(x),
                   Append(out2, Msg(FeReport,
                                    <<Fmt(volume, 2), Fmt(percent, 2), a, b>>)))

\* Binding of a call's positional arguments to def estimate_fe(volume, a, b):
\* none of the three parameters has a default value.
estimate_fe_call(args) ==
    IF Len(args) = 3 THEN estimate_fe(args[1], args[2], args[3])
    ELSE Raise(MissingArguments, <<>>)

\* The inputs of estimate_fe the caller draws from.
Volumes == {I(-5), Zero, I(10), I(70), Q(75074, 1000), Q(77482, 1000),
            Q(7989, 100), I(81), Q(81001, 1000), I(82)}
Slopes     == {Zero, One, Q(4816, 1000), I(-2)}
Intercepts == {Zero, I(5), Q(75074, 1000)}

EstimateFeArgs ==
    {<<v>> : v \in Volumes} \cup
    {<<v, a, b>> : v \in Volumes, a \in Slopes, b \in Intercepts}

-----------------------------------------------------------------------------
(* numpy reductions over a 1-D array (a sequence of floats) *)

Range(s) == {s[i] : i \in 1..Len(s)}

SeqsOfLen(S, lo, hi) == UNION {[1..k -> S] : k \in lo..hi}

RECURSIVE np_sum(_)
np_sum(x) == IF x = <<>> THEN Zero ELSE FAdd(np_sum(SubSeq(x, 1, Len(x) - 1)), x[Len(x)])

np_mean(x) == FDiv(np_sum(x), I(Len(x)))

np_min(x) == CHOOSE v \in Range(x) : \A w \in Range(x) : FLe(v, w)
np_max(x) == CHOOSE v \in Range(x) : \A w \in Range(x) : FLe(w, v)

\* np.var: the mean of the squared distances to the mean.
np_var(x) ==
    LET m == np_mean(x)
    IN  np_mean([i \in 1..Len(x) |-> FMul(FSub(x[i], m), FSub(x[i], m))])

\* The largest r in lo..hi with r * r <= n (lo * lo <= n).
RECURSIVE ISqrtIn(_, _, _)
ISqrtIn(n, lo, hi) ==
    IF lo = hi THEN lo
    ELSE LET mid == (lo + hi + 1) \div 2
         IN  IF mid * mid <= n THEN ISqrtIn(n, mid, hi) ELSE ISqrtIn(n, lo, mid - 1)

ISqrt(n) == ISqrtIn(n, 0, IF n < 46340 THEN n ELSE 46340)

\* format(sqrt(v), ".<digits>f") of a finite v >= 0, as Fmt: np.std is the
\* square root of np.var, and only its formatted value is observed.
FmtSqrt(v, digits) ==
    LET s2 == 4 * Pow10(digits) * Pow10(digits) * v.n
        r  == ISqrt(s2 \div v.d)
        m  == r \div 2
    IN  IF r % 2 = 0 THEN m
        ELSE IF r * r * v.d = s2 /\ m % 2 = 0 THEN m
        ELSE m + 1

-----------------------------------------------------------------------------
(* data_validator.py *)

ShapeMismatch ==
    [type |-> "ValueError", msg |-> "The length of x and V arrays must be the same."]
EmptyInput ==
    [type |-> "ValueError", msg |-> "x and V arrays must not be empty."]
NaNValue ==
    [type |-> "ValueError", msg |-> "x and V arrays must not contain NaN values."]
InfValue ==
    [type |-> "ValueError", msg |-> "x and V arrays must not contain infinite values."]

DataIsValid == "Data is valid.\n"
StatsHeader == "Statistics:"
StatsOfX    == "- x (Fe mole fractions):"
StatsOfV    == "- V (volume - A^3):"

\* Mutant: only a shorter x is taken for a mismatch.
lengths_differ_one_sided(x, V) == Len(x) < Len(V)

\* if len(x) != len(V)
lengths_differ(x, V) == Len(x) # Len(V)

\* if len(x) == 0 or len(V) == 0
either_is_empty(x, V) == Len(x) = 0 \/ Len(V) = 0

any_isnan(x) == \E i \in 1..Len(x) : isnan(x[i])
any_isinf(x) == \E i \in 1..Len(x) : isinf(x[i])

\* Mutant: min and max change places in the printed line.
statistics_swapped(x) ==
    <<Fmt(np_max(x), 4), Fmt(np_min(x), 4), Fmt(np_mean(x), 4), FmtSqrt(np_var(x), 4)>>

\* min, max, mean and std of one array as the f-string prints them (.4f).
statistics(x) ==
    <<Fmt(np_min(x), 4), Fmt(np_max(x), 4), Fmt(np_mean(x), 4), FmtSqrt(np_var(x), 4)>>

check_data_validity(x, V) ==
    IF lengths_differ(x, V) THEN Raise(ShapeMismatch, <<>>)
    ELSE IF either_is_empty(x, V) THEN Raise(EmptyInput, <<>>)
    ELSE IF any_isnan(x) \/ any_isnan(V) THEN Raise(NaNValue, <<>>)
    ELSE IF any_isinf(x) \/ any_isinf(V) THEN Raise(InfValue, <<>>)
    ELSE Return(None, <<Msg(DataIsValid, <<>>),
                        Msg(StatsHeader, <<>>),
                        Msg(StatsOfX, statistics(x)),
                        Msg(StatsOfV, statistics(V))>>)

\* The arrays the caller validates.
XData == {Zero, One, NaN, PInf}
VData == {I(70), I(71), NaN, NInf}

-----------------------------------------------------------------------------
(* vegards_volume.py *)

OutOfRangeFraction ==
    [type |-> "ValueError",
     msg |-> "All fraction values in 'x_values' must be between 0 and 1."]

\* The number of points of the default composition grid.
NumPoints == 100

\* np.linspace(start, stop, num): num evenly spaced floats, both ends included.
np_linspace(start, stop, num) ==
    [i \in 1..num |-> FAdd(start, FDiv(FMul(I(i - 1), FSub(stop, start)), I(num - 1)))]

\* np.any(x_values < 0)
any_below_zero(x_values) == \E i \in 1..Len(x_values) : FLt(x_values[i], Zero)

\* Mutant: the upper end 1 itself is rejected (x_values >= 1).
any_above_one_inclusive(x_values) == \E i \in 1..Len(x_values) : FLe(One, x_values[i])

\* np.any(x_values > 1)
any_above_one(x_values) == \E i \in 1..Len(x_values) : FLt(One, x_values[i])

\* Mutant: the two endmembers are swapped.
V_interp_swapped(x_values, V_MgO, V_FeO) ==
    [i \in 1..Len(x_values) |->
        FAdd(FMul(FSub(One, x_values[i]), V_FeO), FMul(x_values[i], V_MgO))]

\* V_interp = (1 - x_values) * V_MgO + x_values * V_FeO
V_interp(x_values, V_MgO, V_FeO) ==
    [i \in 1..Len(x_values) |->
        FAdd(FMul(FSub(One, x_values[i]), V_MgO), FMul(x_values[i], V_FeO))]

\* x_values is None or Some(array).
vegards_volume(V_MgO, V_FeO, x_values) ==
    IF x_values = None THEN
        LET xs == np_linspace(Zero, One, NumPoints)
        IN  Return(Some(<<xs, V_interp(xs, V_MgO, V_FeO)>>), <<>>)
    ELSE
        LET xs == x_values[1]
        IN  IF any_below_zero(xs) \/ any_above_one(xs)
            THEN Raise(OutOfRangeFraction, <<>>)
            ELSE Return(Some(<<xs, V_interp(xs, V_MgO, V_FeO)>>), <<>>)

\* The endmember volumes and the fractions the caller draws from.
MgOVolumes == {I(74), Zero}
FeOVolumes == {I(80), I(-74)}
Fractions  == {Q(-1, 10), Zero, Q(1, 2), One, Q(11, 10)}

-----------------------------------------------------------------------------
(* calculate_deviation.py *)

\* V_vegard = (V_FeO - V_MgO) * x + V_MgO
V_vegard(x, V_MgO, V_FeO) ==
    [i \in 1..Len(x) |-> FAdd(FMul(FSub(V_FeO, V_MgO), x[i]), V_MgO)]

\* Mutant: the signed difference, as the plot uses it.
deviation_signed(V_lsf, baseline) ==
    [i \in 1..Len(V_lsf) |-> FSub(V_lsf[i], baseline[i])]

\* deviation = np.abs(V_lsf - V_vegard)
deviation(V_lsf, baseline) ==
    [i \in 1..Len(V_lsf) |-> FAbs(FSub(V_lsf[i], baseline[i]))]

\* relative_deviation = (deviation / np.abs(V_vegard)) * 100
relative_deviation(dev, baseline) ==
    [i \in 1..Len(dev) |-> FMul(FDiv(dev[i], FAbs(baseline[i])), Hundred)]

\* V, the experimental volumes, is a parameter the function never reads.
calculate_deviation_vegard(x, V, V_MgO, V_FeO, V_lsf) ==
    LET baseline == V_vegard(x, V_MgO, V_FeO)
        dev      == deviation(V_lsf, baseline)
        rel      == relative_deviation(dev, baseline)
    IN  Return(Some(<<np_mean(dev), np_mean(rel)>>), <<>>)

\* The compositions and fitted volumes the caller draws from; the arrays of
\* one call have the same length, as the elementwise arithmetic requires.
Compositions == {Zero, Q(1, 2), One}
LsfVolumes   == {Zero, I(74), I(77), I(80)}

-----------------------------------------------------------------------------
(* plot_deviation.py *)

\* V_vegard = (V_FeO - V_MgO) * x + V_MgO
plot_V_vegard(x, V_MgO, V_FeO) ==
    [i \in 1..Len(x) |-> FAdd(FMul(FSub(V_FeO, V_MgO), x[i]), V_MgO)]

\* deviation = V_lsf - V_vegard, drawn against x; nothing is returned.
plot_deviation_vegard(x, V_lsf, V_MgO, V_FeO) ==
    LET baseline == plot_V_vegard(x, V_MgO, V_FeO)
        dev      == [i \in 1..Len(x) |-> FSub(V_lsf[i], baseline[i])]
    IN  [Return(None, <<>>) EXCEPT !.plot = Some([x |-> x, y |-> dev])]

-----------------------------------------------------------------------------
(* The fitting libraries: scipy.optimize.curve_fit and sklearn's           *)
(* LinearRegression, as the fitting routines call them.  Both solve a      *)
(* linear least-squares problem; on finite data the minimiser is computed  *)
(* exactly.  Each attempt is logged as a record in fits.                   *)

\* a * x + b at one composition (numpy applies it elementwise).
linear_model(x, a, b) == FAdd(FMul(a, x), b)

\* The end members exchanged.
vegards_law_swapped(x, V_MgO, V_FeO) == FAdd(V_FeO, FMul(FSub(V_MgO, V_FeO), x))

\* V_MgO + (V_FeO - V_MgO) * x at one composition.
vegards_law(x, V_MgO, V_FeO) == FAdd(V_MgO, FMul(FSub(V_FeO, V_MgO), x))

\* The model function handed to curve_fit, by name.
ModelAt(f, x, p, q) ==
    IF f = "linear_model" THEN linear_model(x, p, q) ELSE vegards_law(x, p, q)

np_all_finite(x) == \A i \in 1..Len(x) : isfinite(x[i])

np_dot(u, w) == np_sum([i \in 1..Len(u) |-> FMul(u[i], w[i])])

\* numpy can combine arrays of lengths m and n elementwise.
np_broadcastable(m, n) == m = n \/ m = 1 \/ n = 1

\* What the libraries raise on data they cannot fit.
NonFiniteArray ==
    [type |-> "ValueError", msg |-> "array must not contain infs or NaNs"]
EmptyYData ==
    [type |-> "ValueError", msg |-> "ydata must not be empty!"]
BroadcastError ==
    [type |-> "ValueError", msg |-> "operands could not be broadcast together"]
TooFewPoints ==
    [type |-> "TypeError",
     msg |-> "Improper input: func input vector length N=2 must not exceed func output vector length M"]
SkNonFinite ==
    [type |-> "ValueError", msg |-> "Input contains NaN or infinity"]
SkNoSamples ==
    [type |-> "ValueError", msg |-> "Found array with 0 sample(s) while a minimum of 1 is required"]
SkInconsistentLength ==
    [type |-> "ValueError", msg |-> "Found input variables with inconsistent numbers of samples"]

\* The outcome of one curve_fit call: the optimal parameters and the diagonal
\* of their covariance matrix, or the exception raised.
FitSuccess(popt, pvar) == [ok |-> TRUE, popt |-> popt, pvar |-> pvar, err |-> NoError]
FitFailure(e)          == [ok |-> FALSE, popt |-> <<>>, pvar |-> <<>>, err |-> e]

\* The minimisers among which the optimiser stops when every composition is
\* the same value c (a singular design): the sum of squares is minimal
\* wherever the model at c equals mean(V).  Which one is returned depends on
\* the optimiser's internals; the starting guess p0 and zero stand for the
\* free parameter.
singular_minimisers(f, x, V, p0) ==
    LET B1   == ModelAt(f, x[1], One, Zero)
        B2   == ModelAt(f, x[1], Zero, One)
        mean == np_mean(V)
    IN  IF B2 # Zero
        THEN {<<p, FDiv(FSub(mean, FMul(p, B1)), B2)>> : p \in {p0[1], Zero}}
        ELSE {<<FDiv(mean, B1), q>> : q \in {p0[2], Zero}}

\* The least-squares solution for a model linear in its two parameters, from
\* the normal equations in the basis u = f(x, 1, 0), w = f(x, 0, 1), with the
\* covariance s^2 * inv(J^T J), s^2 = ss_res / (M - 2); the covariance is
\* filled with inf when M = 2 or when the design is singular.
least_squares(f, x, V, p0) ==
    LET M     == Len(x)
        u     == [i \in 1..M |-> ModelAt(f, x[i], One, Zero)]
        w     == [i \in 1..M |-> ModelAt(f, x[i], Zero, One)]
        Suu   == np_dot(u, u)
        Suw   == np_dot(u, w)
        Sww   == np_dot(w, w)
        SuV   == np_dot(u, V)
        SwV   == np_dot(w, V)
        det   == FSub(FMul(Suu, Sww), FMul(Suw, Suw))
        p     == FDiv(FSub(FMul(SuV, Sww), FMul(Suw, SwV)), det)
        q     == FDiv(FSub(FMul(Suu, SwV), FMul(Suw, SuV)), det)
        res   == [i \in 1..M |-> FSub(V[i], ModelAt(f, x[i], p, q))]
        s2    == FDiv(np_dot(res, res), I(M - 2))
    IN  IF det = Zero
        THEN {FitSuccess(pq, <<PInf, PInf>>) : pq \in singular_minimisers(f, x, V, p0)}
        ELSE IF M = 2 THEN {FitSuccess(<<p, q>>, <<PInf, PInf>>)}
        ELSE {FitSuccess(<<p, q>>, <<FDiv(FMul(s2, Sww), det), FDiv(FMul(s2, Suu), det)>>)}

\* The possible outcomes of curve_fit(f, x, V, p0): it checks the data for
\* NaN and inf, refuses an empty V, evaluates f(x, ...) - V and needs at
\* least as many residuals as parameters.  (A fit goes ahead on two arrays
\* of one length; a length-1 array against a longer one is not passed.)
curve_fit(f, x, V, p0) ==
    IF ~np_all_finite(V) \/ ~np_all_finite(x) THEN {FitFailure(NonFiniteArray)}
    ELSE IF Len(V) = 0 THEN {FitFailure(EmptyYData)}
    ELSE IF ~np_broadcastable(Len(x), Len(V)) THEN {FitFailure(BroadcastError)}
    ELSE IF Len(x) < 2 \/ Len(V) < 2 THEN {FitFailure(TooFewPoints)}
    ELSE least_squares(f, x, V, p0)

\* LinearRegression().fit(x.reshape(-1, 1), V): the data are centred, the
\* slope is cov(x, V) / var(x) (0 when x does not vary) and the intercept is
\* mean(V) - slope * mean(x).
LinearRegression_fit(x, V) ==
    IF ~np_all_finite(x) THEN [ok |-> FALSE, coef |-> NaN, intercept |-> NaN, err |-> SkNonFinite]
    ELSE IF Len(x) = 0 THEN [ok |-> FALSE, coef |-> NaN, intercept |-> NaN, err |-> SkNoSamples]
    ELSE IF ~np_all_finite(V) THEN [ok |-> FALSE, coef |-> NaN, intercept |-> NaN, err |-> SkNonFinite]
    ELSE IF Len(x) # Len(V)
         THEN [ok |-> FALSE, coef |-> NaN, intercept |-> NaN, err |-> SkInconsistentLength]
    ELSE LET xm  == np_mean(x)
             Vm  == np_mean(V)
             xc  == [i \in 1..Len(x) |-> FSub(x[i], xm)]
             Vc  == [i \in 1..Len(x) |-> FSub(V[i], Vm)]
             sxx == np_dot(xc, xc)
             m   == IF sxx = Zero THEN Zero ELSE FDiv(np_dot(xc, Vc), sxx)
         IN  [ok |-> TRUE, coef |-> m, intercept |-> FSub(Vm, FMul(m, xm)), err |-> NoError]

\* model.predict([[x]])[0].
predict(model, x) == FAdd(FMul(model.coef, x), model.intercept)

\* One entry of the log of fits.
FitCall(lib, f, x, V, ok) == [lib |-> lib, model |-> f, x |-> x, V |-> V, ok |-> ok]

\* The starting guess the three linear fits pass, and curve_fit's default.
InitialGuess == <<One, I(74)>>
DefaultGuess == <<One, One>>

FitError == "An error occurred during curve fitting:"

-----------------------------------------------------------------------------
(* linear_lsf.py *)

FittedParameters == "Fitted parameters: a, b ="
LinearFit        == "Linear Fit: V = ax + b, a, b ="

\* fit_and_plot_linear_model(x, V), cf being curve_fit's outcome.
linear_lsf_fit_and_plot_linear_model(x, V, cf) ==
    LET log == <<FitCall("curve_fit", "linear_model", x, V, cf.ok)>>
    IN  IF ~cf.ok
        THEN [Return(Some(<<None, None>>), <<Msg(FitError, <<cf.err.msg>>)>>)
                EXCEPT !.fits = log]
        ELSE LET a == cf.popt[1]
                 b == cf.popt[2]
             IN  [Return(Some(<<Some(a), Some(b)>>),
                         <<Msg(FittedParameters, <<Fmt(a, 3), Fmt(b, 3)>>),
                           Msg(LinearFit, <<Fmt(a, 3), Fmt(b, 3)>>)>>)
                    EXCEPT !.fits = log,
                           !.plot = Some([x |-> x, V |-> V,
                                          fit |-> [i \in 1..Len(x) |-> linear_model(x[i], a, b)]])]

-----------------------------------------------------------------------------
(* linear_lsf_confidence.py *)

RSquared            == "R2:"
ConfidenceIntervals == "Confidence intervals (95%): a, b = +/-"

\* The normal quantile of a 95% interval.
Z95 == Q(196, 100)

\* np.sqrt(v) for v >= 0 or inf, kept as its radicand: the root of a
\* rational is irrational in general.
np_sqrt(v) == [sqrt_of |-> v]

\* c * r for a c >= 0 and a root r.
times_sqrt(c, r) == [sqrt_of |-> FMul(FMul(c, c), r.sqrt_of)]

\* format(r, ".<digits>f") of a root: the radicand and the precision.
FmtRoot(r, digits) == [sqrt_of |-> r.sqrt_of, digits |-> digits]

\* fit_and_plot_linear_model(x, V), cf being curve_fit's outcome.
linear_lsf_confidence_fit_and_plot_linear_model(x, V, cf) ==
    LET log == <<FitCall("curve_fit", "linear_model", x, V, cf.ok)>>
    IN  IF ~cf.ok
        THEN [Return(Some(<<None, None, None, None>>), <<Msg(FitError, <<cf.err.msg>>)>>)
                EXCEPT !.fits = log]
        ELSE LET a      == cf.popt[1]
                 b      == cf.popt[2]
                 V_pred == [i \in 1..Len(x) |-> linear_model(x[i], a, b)]
                 residuals == [i \in 1..Len(x) |-> FSub(V[i], V_pred[i])]
                 ss_res == np_dot(residuals, residuals)
                 Vdev   == [i \in 1..Len(V) |-> FSub(V[i], np_mean(V))]
                 ss_tot == np_dot(Vdev, Vdev)
                 r2     == FSub(One, FDiv(ss_res, ss_tot))
                 perr   == <<np_sqrt(cf.pvar[1]), np_sqrt(cf.pvar[2])>>
                 conf_interval == <<times_sqrt(Z95, perr[1]), times_sqrt(Z95, perr[2])>>
             IN  [Return(Some(<<Some(a), Some(b), Some(r2), Some(conf_interval)>>),
                         <<Msg(FittedParameters, <<Fmt(a, 3), Fmt(b, 3)>>),
                           Msg(LinearFit, <<Fmt(a, 3), Fmt(b, 3)>>),
                           Msg(RSquared, <<Fmt(r2, 3)>>),
                           Msg(ConfidenceIntervals,
                               <<FmtRoot(conf_interval[1], 3), FmtRoot(conf_interval[2], 3)>>)>>)
                    EXCEPT !.fits = log,
                           !.plot = Some([x |-> x, V |-> V, fit |-> V_pred,
                                          band |-> conf_interval])]

-----------------------------------------------------------------------------
(* lsf_vegard.py *)

\* compare_models(x, V, V_MgO, V_FeO), cf being curve_fit's outcome.
lsf_vegard_compare_models(x, V, V_MgO, V_FeO, cf) ==
    LET log == <<FitCall("curve_fit", "linear_model", x, V, cf.ok)>>
    IN  IF ~cf.ok
        THEN [Return(Some(<<None, None>>), <<Msg(FitError, <<cf.err.msg>>)>>)
                EXCEPT !.fits = log]
        ELSE LET a == cf.popt[1]
                 b == cf.popt[2]
             IN  [Return(Some(<<Some(a), Some(b)>>), <<>>)
                    EXCEPT !.fits = log,
                           !.plot = Some([x |-> x, V |-> V,
                                          fit |-> [i \in 1..Len(x) |-> linear_model(x[i], a, b)],
                                          vegard |-> [i \in 1..Len(x) |->
                                                        FAdd(FMul(FSub(V_FeO, V_MgO), x[i]), V_MgO)]])]

-----------------------------------------------------------------------------
(* comparison.py *)

VegardParameters      == "Fitted Vegard's Law parameters: V_MgO, V_FeO ="
LeastSquaresParameters == "Fitted Least Squares parameters: a, b ="

\* compare_models(x, V), cf_vegard and cf_linear being the outcomes of the two
\* curve_fit calls.  Nothing catches an exception of either.  The two fitted
\* lines are drawn over np.linspace(0, 1, 100); the plot keeps the grid and
\* the parameters of each line.
comparison_compare_models(x, V, cf_vegard, cf_linear) ==
    LET first  == FitCall("curve_fit", "vegards_law", x, V, cf_vegard.ok)
        second == FitCall("curve_fit", "linear_model", x, V, cf_linear.ok)
    IN  IF ~cf_vegard.ok
        THEN [Raise(cf_vegard.err, <<>>) EXCEPT !.fits = <<first>>]
        ELSE LET V_MgO_fit == cf_vegard.popt[1]
                 V_FeO_fit == cf_vegard.popt[2]
                 line1     == Msg(VegardParameters, <<Fmt(V_MgO_fit, 4), Fmt(V_FeO_fit, 4)>>)
             IN  IF ~cf_linear.ok
                 THEN [Raise(cf_linear.err, <<line1>>) EXCEPT !.fits = <<first, second>>]
                 ELSE LET a_fit == cf_linear.popt[1]
                          b_fit == cf_linear.popt[2]
                      IN  [Return(None,
                                  <<line1,
                                    Msg(LeastSquaresParameters, <<Fmt(a_fit, 4), Fmt(b_fit, 4)>>)>>)
                             EXCEPT !.fits = <<first, second>>,
                                    !.plot = Some([x |-> x, V |-> V,
                                                   x_fit |-> [start |-> Zero, stop |-> One,
                                                              num |-> NumPoints],
                                                   y_fit_vegard |-> <<V_MgO_fit, V_FeO_fit>>,
                                                   y_fit_linear |-> <<a_fit, b_fit>>])]

-----------------------------------------------------------------------------
(* vegards_law.py *)

VegardFitHeader == "\nVegard's Law Fit:"
VegardFitLine   == "   V(x) = coef * x + intercept:"
ExtrapolatedFeO == "   Extrapolated V_FeO (x=1):"
ExtrapolatedMgO == "   Extrapolated V_MgO (x=0):"

\* fit_vegards_law(x, V).  Nothing catches an exception of the regression.
fit_vegards_law(x, V) ==
    LET model == LinearRegression_fit(x, V)
        log   == <<FitCall("LinearRegression", "linear_model", x, V, model.ok)>>
    IN  IF ~model.ok
        THEN [Raise(model.err, <<>>) EXCEPT !.fits = log]
        ELSE LET V_FeO == predict(model, One)
                 V_MgO == predict(model, Zero)
             IN  [Return(Some(<<Some(model), Some(V_FeO), Some(V_MgO)>>),
                         <<Msg(VegardFitHeader, <<>>),
                           Msg(VegardFitLine, <<Fmt(model.coef, 4), Fmt(model.intercept, 4)>>),
                           Msg(ExtrapolatedFeO, <<Fmt(V_FeO, 4)>>),
                           Msg(ExtrapolatedMgO, <<Fmt(V_MgO, 4)>>)>>)
                    EXCEPT !.fits = log]

\* plot_fit(x, V, model): the scatter and the fitted line.
plot_fit(x, V, model) ==
    [x |-> x, V |-> V, fit |-> [i \in 1..Len(x) |-> predict(model, x[i])]]

\* run_analysis(x, V, plot).
run_analysis(x, V, plot_flag) ==
    LET r == fit_vegards_law(x, V)
    IN  IF r.err # NoError THEN r
        ELSE IF plot_flag THEN [r EXCEPT !.plot = Some(plot_fit(x, V, r.ret[1][1][1]))]
        ELSE r

-----------------------------------------------------------------------------
(* Data handed to the fitting routines *)

FitX == {Zero, Q(1, 2), One}
FitV == {I(70), I(71), I(72)}

\* Pairs a validation would reject for another reason than emptiness: a NaN
\* composition, an infinite volume, arrays of different lengths.
MalformedFitData ==
    { << <<Zero, NaN>>, <<I(70), I(71)>> >>,
      << <<Zero, One>>, <<I(70), PInf>> >>,
      << <<Zero, Q(1, 2), One>>, <<I(70), I(71)>> >> }

\* Equal-length arrays of up to MaxLen points, and the malformed pairs.
FitData ==
    UNION {{<<x, V>> : x \in [1..k -> FitX], V \in [1..k -> FitV]} : k \in 0..MaxLen}
        \cup MalformedFitData

\* The end members handed to lsf_vegard's compare_models.
ReferenceMgO == I(74)
ReferenceFeO == I(80)

-----------------------------------------------------------------------------
(* The caller *)

Init ==
    /\ pc = "idle"
    /\ call = [fn |-> "none", args |-> <<>>]
    /\ ret = None
    /\ err = NoError
    /\ out = <<>>
    /\ plot = None
    /\ fits = <<>>

Finish(fn, args, r) ==
    /\ pc' = "done"
    /\ call' = [fn |-> fn, args |-> args]
    /\ ret' = r.ret
    /\ err' = r.err
    /\ out' = r.out
    /\ plot' = r.plot
    /\ fits' = r.fits

EstimateFe ==
    /\ pc = "idle"
    /\ \E args \in EstimateFeArgs :
          Finish("estimate_fe", args, estimate_fe_call(args))

CheckDataValidity ==
    /\ pc = "idle"
    /\ \E x \in SeqsOfLen(XData, 0, MaxLen), V \in SeqsOfLen(VData, 0, MaxLen) :
          Finish("check_data_validity", <<x, V>>, check_data_validity(x, V))

VegardsVolume ==
    /\ pc = "idle"
    /\ \E V_MgO \in MgOVolumes, V_FeO \in FeOVolumes,
          x_values \in {None} \cup {Some(xs) : xs \in SeqsOfLen(Fractions, 0, MaxLen)} :
          Finish("vegards_volume", <<V_MgO, V_FeO, x_values>>,
                 vegards_volume(V_MgO, V_FeO, x_values))

CalculateDeviationVegard ==
    /\ pc = "idle"
    /\ \E x \in SeqsOfLen(Compositions, 1, MaxLen),
          V_MgO \in MgOVolumes, V_FeO \in FeOVolumes :
       \E V_lsf \in [1..Len(x) -> LsfVolumes], V \in {[i \in 1..Len(x) |-> I(74)]} :
          Finish("calculate_deviation_vegard", <<x, V, V_MgO, V_FeO, V_lsf>>,
                 calculate_deviation_vegard(x, V, V_MgO, V_FeO, V_lsf))

PlotDeviationVegard ==
    /\ pc = "idle"
    /\ \E x \in SeqsOfLen(Compositions, 1, MaxLen),
          V_MgO \in MgOVolumes, V_FeO \in FeOVolumes :
       \E V_lsf \in [1..Len(x) -> LsfVolumes] :
          Finish("plot_deviation_vegard", <<x, V_lsf, V_MgO, V_FeO>>,
                 plot_deviation_vegard(x, V_lsf, V_MgO, V_FeO))

FitAndPlotLinearModel ==
    /\ pc = "idle"
    /\ \E d \in FitData :
       \E cf \in curve_fit("linear_model", d[1], d[2], InitialGuess) :
          Finish("linear_lsf.fit_and_plot_linear_model", d,
                 linear_lsf_fit_and_plot_linear_model(d[1], d[2], cf))

FitAndPlotLinearModelWithConfidence ==
    /\ pc = "idle"
    /\ \E d \in FitData :
       \E cf \in curve_fit("linear_model", d[1], d[2], InitialGuess) :
          Finish("linear_lsf_confidence.fit_and_plot_linear_model", d,
                 linear_lsf_confidence_fit_and_plot_linear_model(d[1], d[2], cf))

LsfVegardCompareModels ==
    /\ pc = "idle"
    /\ \E d \in FitData :
       \E cf \in curve_fit("linear_model", d[1], d[2], InitialGuess) :
          Finish("lsf_vegard.compare_models", <<d[1], d[2], ReferenceMgO, ReferenceFeO>>,
                 lsf_vegard_compare_models(d[1], d[2], ReferenceMgO, ReferenceFeO, cf))

\* The second curve_fit is only called when the first has returned.
ComparisonCompareModels ==
    /\ pc = "idle"
    /\ \E d \in FitData :
       \E cf_vegard \in curve_fit("vegards_law", d[1], d[2], DefaultGuess),
          cf_linear \in curve_fit("linear_model", d[1], d[2], DefaultGuess) :
          Finish("comparison.compare_models", d,
                 comparison_compare_models(d[1], d[2], cf_vegard, cf_linear))

FitVegardsLaw ==
    /\ pc = "idle"
    /\ \E d \in FitData :
          Finish("fit_vegards_law", d, fit_vegards_law(d[1], d[2]))

RunAnalysis ==
    /\ pc = "idle"
    /\ \E d \in FitData, plot_flag \in BOOLEAN :
          Finish("run_analysis", <<d[1], d[2], plot_flag>>,
                 run_analysis(d[1], d[2], plot_flag))

NextCall ==
    /\ pc = "done"
    /\ pc' = "idle"
    /\ call' = [fn |-> "none", args |-> <<>>]
    /\ ret' = None
    /\ err' = NoError
    /\ out' = <<>>
    /\ plot' = None
    /\ fits' = <<>>

Next ==
    \/ EstimateFe
    \/ CheckDataValidity
    \/ VegardsVolume
    \/ CalculateDeviationVegard
    \/ PlotDeviationVegard
    \/ FitAndPlotLinearModel
    \/ FitAndPlotLinearModelWithConfidence
    \/ LsfVegardCompareModels
    \/ ComparisonCompareModels
    \/ FitVegardsLaw
    \/ RunAnalysis
    \/ NextCall

Spec == Init /\ [][Next]_vars


-----------------------------------------------------------------------------
(* Properties of estimate_fe *)

Warned(text) == \E i \in 1..Len(out) : out[i].text = text

\* A finished call of estimate_fe with all three arguments.
FeCall == pc = "done" /\ call.fn = "estimate_fe" /\ Len(call.args) = 3
\* A finished call of estimate_fe with the volume alone.
FeDefaultCall == pc = "done" /\ call.fn = "estimate_fe" /\ Len(call.args) = 1

\* The call returned x with x * a = volume - b.
ReturnedQuotient ==
    /\ err = NoError
    /\ Len(ret) = 1
    /\ isfinite(ret[1])
    /\ FMul(ret[1], call.args[2]) = FSub(call.args[1], call.args[3])

\* C1: with volume > 0 and a # 0, estimate_fe returns x = (volume - b) / a,
\* and prints the out-of-bounds warning exactly when x < 0 or x > 1; the
\* out-of-range x is returned all the same.
C1_ReturnsQuotientAndFlagsRange ==
    (FeCall /\ FLt(Zero, call.args[1]) /\ call.args[2] # Zero) =>
        /\ ReturnedQuotient
        /\ Warned(OutOfPhysicalRange) <=>
              (FLt(ret[1], Zero) \/ FLt(One, ret[1]))

\* C1 witness: estimate_fe(70, 4.816, 75.074) returned a negative x with the
\* warning.
C1_Witness ==
    /\ FeCall
    /\ call.args = <<I(70), Q(4816, 1000), Q(75074, 1000)>>
    /\ Len(ret) = 1 /\ FLt(ret[1], Zero)
    /\ Warned(OutOfPhysicalRange)

\* C2: a call with the volume alone behaves as the call with a = 4.816,
\* b = 75.074, so that estimate_fe(75.074) = 0, estimate_fe(77.482) = 0.5 and
\* estimate_fe(79.89) = 1.
C2_DefaultForm ==
    FeDefaultCall =>
        LET r == estimate_fe(call.args[1], Q(4816, 1000), Q(75074, 1000))
        IN  /\ ret = r.ret /\ err = r.err /\ out = r.out
            /\ call.args[1] = Q(75074, 1000) => ret = Some(Zero)
            /\ call.args[1] = Q(77482, 1000) => ret = Some(Q(1, 2))
            /\ call.args[1] = Q(7989, 100) => ret = Some(One)

\* C3, as claimed: a == 0 fails with ZeroSlope for every volume and every b.
C3_ZeroSlopeForEveryVolume ==
    (FeCall /\ call.args[2] = Zero) => (err = ZeroSlope /\ ret = None)

\* C3, amended: a == 0 never returns an x; the failure is ZeroSlope when
\* volume > 0 and NonPositiveVolume (the earlier check) when volume <= 0.
C3_ZeroSlopeForPositiveVolume ==
    (FeCall /\ call.args[2] = Zero) =>
        /\ ret = None
        /\ FLt(Zero, call.args[1]) => err = ZeroSlope
        /\ FLe(call.args[1], Zero) => err = NonPositiveVolume

\* C3 witness: estimate_fe(10, 0, 5) failed with ZeroSlope.
C3_Witness ==
    /\ FeCall
    /\ call.args = <<I(10), Zero, I(5)>>
    /\ err = ZeroSlope

\* C4: volume <= 0 fails with NonPositiveVolume for every a and b, before
\* any other check, print or division, and returns no x.
C4_NonPositiveVolumeFirst ==
    (FeCall /\ FLe(call.args[1], Zero)) =>
        /\ err = NonPositiveVolume
        /\ ret = None
        /\ out = <<>>

\* C4 witness: volume == 0 with a == 0 failed with NonPositiveVolume.
C4_Witness ==
    /\ FeCall
    /\ call.args[1] = Zero
    /\ call.args[2] = Zero
    /\ err = NonPositiveVolume

\* C5: the large-volume warning is printed exactly when volume > 81, and
\* with a # 0 the computed x is returned all the same.
C5_LargeVolumeWarning ==
    FeCall =>
        /\ Warned(UnusuallyLargeVolume) <=> FLt(I(81), call.args[1])
        /\ (FLt(I(81), call.args[1]) /\ call.args[2] # Zero) => ReturnedQuotient

\* C5 witness: a volume just above 81 was warned about and x was returned.
C5_Witness ==
    /\ FeCall
    /\ call.args[1] = Q(81001, 1000)
    /\ Warned(UnusuallyLargeVolume)
    /\ Len(ret) = 1

-----------------------------------------------------------------------------
(* Properties of check_data_validity *)

ValidatorCall == pc = "done" /\ call.fn = "check_data_validity"

AllFinite(x) == \A i \in 1..Len(x) : isfinite(x[i])

\* The call was given arrays of equal, non-zero length without NaN or inf.
ValidPair ==
    /\ ValidatorCall
    /\ Len(call.args[1]) = Len(call.args[2])
    /\ Len(call.args[1]) # 0
    /\ AllFinite(call.args[1])
    /\ AllFinite(call.args[2])

\* <<min, max, mean, std>> with min <= mean <= max and std >= 0.
SoundStatistics(st) ==
    /\ Len(st) = 4
    /\ st[1] <= st[3]
    /\ st[3] <= st[2]
    /\ st[4] >= 0

\* C6, as claimed: on a valid pair the call succeeds and returns the
\* statistics of both arrays, with min <= mean <= max and std >= 0.
C6_ReturnsStatistics ==
    ValidPair =>
        /\ err = NoError
        /\ Len(ret) = 1
        /\ Len(ret[1]) = 2
        /\ SoundStatistics(ret[1][1])
        /\ SoundStatistics(ret[1][2])

\* C6, amended: on a valid pair the call succeeds, returns None and prints
\* the statistics of both arrays, with min <= mean <= max and std >= 0.
C6_PrintsStatistics ==
    ValidPair =>
        /\ err = NoError
        /\ ret = None
        /\ Len(out) = 4
        /\ out[3].text = StatsOfX /\ SoundStatistics(out[3].vals)
        /\ out[4].text = StatsOfV /\ SoundStatistics(out[4].vals)

\* C6 witness: a valid pair whose printed mean of x lies strictly between the
\* printed min and max, and whose printed std of V is positive.
C6_Witness ==
    /\ ValidPair
    /\ Len(out) = 4
    /\ out[3].vals[1] < out[3].vals[3]
    /\ out[3].vals[3] < out[3].vals[2]
    /\ out[4].vals[4] > 0

\* C7, as claimed: a zero-length x or a zero-length V fails with EmptyInput.
C7_EmptyInputWhenEitherEmpty ==
    (ValidatorCall /\ (Len(call.args[1]) = 0 \/ Len(call.args[2]) = 0)) =>
        err = EmptyInput

\* C7, amended: x = [] with V = [] fails with EmptyInput; when only one of
\* the two is empty the lengths differ and the failure is ShapeMismatch.
C7_EmptyInputWhenBothEmpty ==
    (ValidatorCall /\ (Len(call.args[1]) = 0 \/ Len(call.args[2]) = 0)) =>
        /\ ret = None /\ out = <<>>
        /\ (Len(call.args[1]) = 0 /\ Len(call.args[2]) = 0) => err = EmptyInput
        /\ (Len(call.args[1]) # Len(call.args[2])) => err = ShapeMismatch

\* C7 witness: x = [] with a non-empty V failed with ShapeMismatch.
C7_Witness ==
    /\ ValidatorCall
    /\ Len(call.args[1]) = 0
    /\ Len(call.args[2]) > 0
    /\ err = ShapeMismatch

-----------------------------------------------------------------------------
(* Properties of vegards_volume *)

InterpCall == pc = "done" /\ call.fn = "vegards_volume"

\* v lies in the closed interval [0, 1].
InUnitInterval(v) == FLe(Zero, v) /\ FLe(v, One)

\* C8: with x_values given, the call fails with OutOfRangeFraction if and
\* only if some value lies outside [0, 1] (0 and 1 are accepted), and a
\* failed call returns no volumes.
C8_OutOfRangeFraction ==
    (InterpCall /\ call.args[3] # None) =>
        LET xs == call.args[3][1]
        IN  /\ (err = OutOfRangeFraction) <=>
                   (\E i \in 1..Len(xs) : ~InUnitInterval(xs[i]))
            /\ (err = NoError) <=> (\A i \in 1..Len(xs) : InUnitInterval(xs[i]))
            /\ (err # NoError) => ret = None
            /\ (err = NoError) => (Len(ret) = 1 /\ ret[1][1] = xs)

\* C8 witness: vegards_volume(74, 80, [-0.1]) failed with OutOfRangeFraction.
C8_Witness ==
    /\ InterpCall
    /\ call.args = <<I(74), I(80), Some(<<Q(-1, 10)>>)>>
    /\ err = OutOfRangeFraction
    /\ ret = None

\* C9: every interpolated volume (1 - x) * V_MgO + x * V_FeO equals the
\* baseline (V_FeO - V_MgO) * x + V_MgO of the deviation calculation and of
\* the deviation plot; x = 0 gives V_MgO, x = 1 gives V_FeO, and
\* vegards_volume(74, 80, [0, 0.5, 1]) gives [74, 77, 80].
C9_InterpolationIsBaseline ==
    (InterpCall /\ err = NoError) =>
        LET V_MgO == call.args[1]
            V_FeO == call.args[2]
            xs    == ret[1][1]
            Vs    == ret[1][2]
        IN  /\ Len(Vs) = Len(xs)
            /\ Vs = V_vegard(xs, V_MgO, V_FeO)
            /\ Vs = plot_V_vegard(xs, V_MgO, V_FeO)
            /\ \A i \in 1..Len(xs) :
                  /\ InUnitInterval(xs[i])
                  /\ xs[i] = Zero => Vs[i] = V_MgO
                  /\ xs[i] = One => Vs[i] = V_FeO
            /\ (call.args = <<I(74), I(80), Some(<<Zero, Q(1, 2), One>>)>>) =>
                  Vs = <<I(74), I(77), I(80)>>

\* C9 witness: vegards_volume(74, 80, [0, 0.5, 1]) returned [74, 77, 80].
C9_Witness ==
    /\ InterpCall
    /\ call.args = <<I(74), I(80), Some(<<Zero, Q(1, 2), One>>)>>
    /\ ret = Some(<<<<Zero, Q(1, 2), One>>, <<I(74), I(77), I(80)>>>>)

-----------------------------------------------------------------------------
(* Properties of calculate_deviation_vegard *)

DevCall == pc = "done" /\ call.fn = "calculate_deviation_vegard"

\* The baseline of the call at sample i, (V_FeO - V_MgO) * x[i] + V_MgO.
BaselineAt(i) ==
    FAdd(FMul(FSub(call.args[4], call.args[3]), call.args[1][i]), call.args[3])

\* |V_lsf[i] - baseline[i]|
AbsDevAt(i) == FAbs(FSub(call.args[5][i], BaselineAt(i)))

\* 100 * |V_lsf[i] - baseline[i]| / |baseline[i]|
RelDevAt(i) == FDiv(FMul(Hundred, AbsDevAt(i)), FAbs(BaselineAt(i)))

RECURSIVE SumAbsDev(_)
SumAbsDev(k) == IF k = 0 THEN Zero ELSE FAdd(AbsDevAt(k), SumAbsDev(k - 1))

RECURSIVE SumRelDev(_)
SumRelDev(k) == IF k = 0 THEN Zero ELSE FAdd(RelDevAt(k), SumRelDev(k - 1))

\* C10: when the baseline is non-zero at every sample, both aggregates are
\* >= 0, they are the means of |V_lsf[i] - V_vegard[i]| and of
\* 100 * |V_lsf[i] - V_vegard[i]| / |V_vegard[i]|, and both are 0 when V_lsf
\* is the baseline itself.
C10_DeviationMeans ==
    (DevCall /\ \A i \in 1..Len(call.args[1]) : BaselineAt(i) # Zero) =>
        LET n == Len(call.args[1])
        IN  /\ err = NoError
            /\ Len(ret) = 1
            /\ Len(ret[1]) = 2
            /\ FLe(Zero, ret[1][1])
            /\ FLe(Zero, ret[1][2])
            /\ FMul(ret[1][1], I(n)) = SumAbsDev(n)
            /\ FMul(ret[1][2], I(n)) = SumRelDev(n)
            /\ (\A i \in 1..n : call.args[5][i] = BaselineAt(i)) =>
                  ret[1] = <<Zero, Zero>>

\* C10 witness: on x = [0, 0.5, 1] with endmembers 74 and 80 the deviation
\* of V_lsf = [74, 77, 80] from itself came out as (0, 0).
C10_Witness ==
    /\ DevCall
    /\ call.args[1] = <<Zero, Q(1, 2), One>>
    /\ call.args[3] = I(74)
    /\ call.args[4] = I(80)
    /\ call.args[5] = <<I(74), I(77), I(80)>>
    /\ ret = Some(<<Zero, Zero>>)

\* C11: a zero baseline is guarded: when some V_vegard[i] is exactly 0 the
\* call either signals the condition or returns a finite
\* mean_relative_deviation (the sample left out); it never hands back NaN or
\* an infinity.
C11_ZeroBaselineGuarded ==
    (DevCall /\ \E i \in 1..Len(call.args[1]) : BaselineAt(i) = Zero) =>
        \/ err # NoError
        \/ Len(ret) = 1 /\ isfinite(ret[1][2])

-----------------------------------------------------------------------------
(* Hard failures of estimate_fe *)

\* C17: a call that ends in NonPositiveVolume or ZeroSlope has printed
\* nothing before the error is raised: no large-volume warning, no
\* out-of-bounds warning, no report; in particular not with volume > 81 and
\* a == 0.
C17_NoOutputBeforeFailure ==
    (FeCall /\ err \in {NonPositiveVolume, ZeroSlope}) => out = <<>>

-----------------------------------------------------------------------------
(* Properties of the fitting routines *)

\* The routines that fit a line and return what they fitted.
FittingRoutines ==
    {"linear_lsf.fit_and_plot_linear_model",
     "linear_lsf_confidence.fit_and_plot_linear_model",
     "lsf_vegard.compare_models",
     "fit_vegards_law"}

FitFailed == \E i \in 1..Len(fits) : ~fits[i].ok

\* C12: when the least-squares fit of a fitting routine raises, the routine
\* returns normally and every component of what it returns is None.
C12_FailedFitReturnsSentinel ==
    (pc = "done" /\ call.fn \in FittingRoutines /\ FitFailed) =>
        /\ err = NoError
        /\ Len(ret) = 1
        /\ \A k \in 1..Len(ret[1]) : ret[1][k] = None

\* C13: in comparison's compare_models a failed Vegard fit is followed by an
\* attempt of the linear fit on the same data.
C13_VegardFailureLeavesLinearFit ==
    (pc = "done" /\ call.fn = "comparison.compare_models"
        /\ Len(fits) >= 1 /\ ~fits[1].ok) =>
        /\ Len(fits) = 2
        /\ fits[2].model = "linear_model"
        /\ fits[2].x = call.args[1]
        /\ fits[2].V = call.args[2]

DistinctCompositions(x) == \E i, j \in 1..Len(x) : x[i] # x[j]

NoiselessX == <<Zero, Q(1, 2), One>>
NoiselessV == <<I(70), I(71), I(72)>>

\* C14: on data with at least two distinct compositions that both fits
\* accept, compare_models finds one line twice, a = V_FeO - V_MgO and
\* b = V_MgO; fit_vegards_law returns the end members the direct Vegard fit
\* of the same data finds; and on V = 2x + 70 over x = [0, 0.5, 1] the line
\* is a = 2, b = 70.
C14_VegardFitIsLinearFit ==
    /\ (pc = "done" /\ call.fn = "comparison.compare_models" /\ err = NoError
          /\ DistinctCompositions(call.args[1])) =>
          /\ plot[1].y_fit_linear[1] =
                FSub(plot[1].y_fit_vegard[2], plot[1].y_fit_vegard[1])
          /\ plot[1].y_fit_linear[2] = plot[1].y_fit_vegard[1]
          /\ (call.args = <<NoiselessX, NoiselessV>> =>
                plot[1].y_fit_linear = <<I(2), I(70)>>)
    /\ (pc = "done" /\ call.fn = "fit_vegards_law" /\ err = NoError
          /\ DistinctCompositions(call.args[1])) =>
          \A cf \in curve_fit("vegards_law", call.args[1], call.args[2], DefaultGuess) :
              /\ cf.ok
              /\ ret[1][3] = Some(cf.popt[1])
              /\ ret[1][2] = Some(cf.popt[2])

C14_Witness ==
    /\ pc = "done"
    /\ call.fn = "comparison.compare_models"
    /\ call.args = <<NoiselessX, NoiselessV>>
    /\ err = NoError
    /\ plot[1].y_fit_vegard = <<I(70), I(72)>>
    /\ plot[1].y_fit_linear = <<I(2), I(70)>>

\* C15: every fit asked of a library is on data that check_data_validity
\* accepts: arrays of one length, not empty, without NaN or inf.
C15_FitOnlyOnValidData ==
    \A i \in 1..Len(fits) : check_data_validity(fits[i].x, fits[i].V).err = NoError

=============================================================================
